---- MODULE Spec2Model ----
(***************************************************************************)
(* mongocrud: generic CRUD over a document collection                      *)
(* (src/mongocrud/collection.go) and the client's collection registry      *)
(* (src/mongocrud/collection.go lines 146-288, src/unnamed/part_000).      *)
(*                                                                         *)
(* Three specifications share the variables:                               *)
(*   Spec       one caller; every handler of DatabaseCollection is one     *)
(*              atomic action (its store calls included);                  *)
(*   SpecConc   several callers; NewItem and UpdateItem are split at the   *)
(*              point between their write call and their re-fetch, which   *)
(*              is where another caller's store call can land;             *)
(*   SpecClient the registry of DatabaseClient.                            *)
(*                                                                         *)
(* Strings that the code parses (the hex form of an identifier) are        *)
(* sequences of one-character strings, so that encoding and decoding are   *)
(* computed and not assumed.  A *mongo.SingleResult is a sequence holding  *)
(* the found document, or the empty sequence when there is none.           *)
(* Record types are taken to map their ID field to the document key _id.   *)
(***************************************************************************)
EXTENDS Integers, Sequences, FiniteSets, TLC

\* docs         the documents behind the collection handle, in insertion order
\* prevDocs     docs before the last call
\* ret          the last call of the one caller: its arguments, what it
\*              returned and the store calls it made
\* crashed      the last call panicked
\* Collections  DatabaseClient.Collections
\* got          the last GetCollection: the name asked and what came back
\* pc, job, own, between, out   per concurrent caller: where it is, its
\*              call, the document its write stored, what others did to that
\*              identifier since, and what it returned
VARIABLES docs, prevDocs, ret, crashed, Collections, got, pc, job, own, between, out

vars == <<docs, prevDocs, ret, crashed, Collections, got, pc, job, own, between, out>>

crudVars == <<docs, prevDocs, ret, crashed>>
clientVars == <<Collections, got>>
concVars == <<pc, job, own, between, out>>

\* ------------------------------------------------------------- bounds
NumIds == 2
MaxRegistry == 3
NumProcs == 2

\* ------------------------------------------------ identifiers and hex
\* primitive.ObjectID is [12]byte
ObjectIDLen == 12

NilObjectID == [i \in 1..ObjectIDLen |-> 0]

\* k-th non-nil identifier of the model; its bytes have letter hex digits
OID(k) == [i \in 1..ObjectIDLen |-> (17 * k + 9 + i) % 256]

NonNilIds == {OID(k) : k \in 1..NumIds}
Ids == NonNilIds \cup {NilObjectID}

HexDigits == <<"0", "1", "2", "3", "4", "5", "6", "7", "8", "9", "a", "b", "c", "d", "e", "f">>
UpperDigits == <<"0", "1", "2", "3", "4", "5", "6", "7", "8", "9", "A", "B", "C", "D", "E", "F">>

\* ObjectID.Hex(): two lower-case digits per byte
Hex(id) == [i \in 1..(2 * Len(id)) |-> HexDigits[IF i % 2 = 1 THEN (id[(i + 1) \div 2] \div 16) + 1 ELSE (id[i \div 2] % 16) + 1]]

UpperHex(id) == [i \in 1..(2 * Len(id)) |-> UpperDigits[IF i % 2 = 1 THEN (id[(i + 1) \div 2] \div 16) + 1 ELSE (id[i \div 2] % 16) + 1]]

\* the decoding table of encoding/hex: digit, either case, to its value
HexValue ==
    [c \in {HexDigits[n] : n \in 1..16} \cup {UpperDigits[n] : n \in 1..16} |->
        (CHOOSE n \in 1..16 : HexDigits[n] = c \/ UpperDigits[n] = c) - 1]

IsHexDigit(c) == c \in DOMAIN HexValue

DigitValue(c) == HexValue[c]

\* primitive.ObjectIDFromHex(s): NilObjectID and an error unless s is 24 hex digits
ObjectIDFromHex(s) ==
    IF Len(s) = 2 * ObjectIDLen /\ \A j \in 1..Len(s) : IsHexDigit(s[j])
    THEN [id |-> [i \in 1..ObjectIDLen |-> 16 * DigitValue(s[2 * i - 1]) + DigitValue(s[2 * i])], err |-> "nil"]
    ELSE [id |-> NilObjectID, err |-> "ErrInvalidHex"]

\* ------------------------------------------------------------ records
Payloads == {<<"a">>, <<"b">>}

\* the document a record is stored as
Document(id, data) == [_id |-> id, data |-> data]

Documents == {Document(id, d) : id \in Ids, d \in Payloads}

\* The argument i of NewItem/UpdateItem as reflect sees it: its Kind, the
\* Kind of what it points to, and how the field ID of the struct looks.
Arg(kind, elemKind, idField, id, data) == [kind |-> kind, elemKind |-> elemKind, idField |-> idField, ID |-> id, data |-> data]

RecordArgs == {Arg("Ptr", "Struct", "ObjectID", id, d) : id \in Ids, d \in Payloads}

BadArgs ==
    { Arg("Invalid", "Invalid", "absent", NilObjectID, <<"a">>),
      Arg("Struct", "Invalid", "ObjectID", OID(1), <<"a">>),
      Arg("Struct", "Invalid", "ObjectID", NilObjectID, <<"a">>),
      Arg("Ptr", "Int", "absent", NilObjectID, <<"a">>),
      Arg("Ptr", "Invalid", "ObjectID", NilObjectID, <<"a">>),
      Arg("Ptr", "Struct", "absent", NilObjectID, <<"a">>),
      Arg("Ptr", "Struct", "string", NilObjectID, <<"a">>) }

Args == RecordArgs \cup BadArgs

\* values handed to GetItem/ItemExists
Malformed ==
    { <<>>,
      SubSeq(Hex(OID(1)), 1, 22),
      Hex(OID(1)) \o <<"0", "0">>,
      [Hex(OID(1)) EXCEPT ![24] = "g"] }

IdValues == {Hex(id) : id \in Ids} \cup {UpperHex(OID(1))} \cup Malformed

IdKeys == {"_id", "id"}

\* the (by, value) pairs handed to GetItem/ItemExists
Lookups == (IdKeys \X IdValues) \cup ({"data", "name"} \X Payloads) \cup {<<"data", Hex(OID(1))>>}

\* which store calls of one handler fail: <<its write, its find>>
Faults == {<<FALSE, FALSE>>, <<TRUE, FALSE>>, <<FALSE, TRUE>>}

\* ---------------------------------------------------- the store handle
\* The capability set mongoCollection, as a collection with a unique _id:
\* docs is the sequence of stored documents in insertion order, a filter is
\* one key with the value it must equal, and fault says that the call itself
\* fails (deadline, cancelled context, connection).
Filter(key, value) == [key |-> key, value |-> value]

Matches(doc, filter) ==
    IF filter.key = "_id" THEN doc._id = filter.value
    ELSE IF filter.key = "data" THEN doc.data = filter.value
    ELSE FALSE

Matching(d, filter) == {n \in 1..Len(d) : Matches(d[n], filter)}

First(S) == CHOOSE n \in S : \A m \in S : n <= m

Remove(d, n) == [m \in 1..(Len(d) - 1) |-> IF m < n THEN d[m] ELSE d[m + 1]]

Call(name, err) == [call |-> name, err |-> err]

InsertOne(d, doc, fault) ==
    IF fault THEN [docs |-> d, err |-> "Fault"]
    ELSE IF Matching(d, Filter("_id", doc._id)) # {} THEN [docs |-> d, err |-> "DuplicateKey"]
    ELSE [docs |-> Append(d, doc), err |-> "nil"]

FindOne(d, filter, fault) ==
    IF fault THEN [res |-> <<>>, err |-> "Fault"]
    ELSE IF Matching(d, filter) = {} THEN [res |-> <<>>, err |-> "ErrNoDocuments"]
    ELSE [res |-> <<d[First(Matching(d, filter))]>>, err |-> "nil"]

ReplaceOne(d, filter, doc, fault) ==
    IF fault THEN [docs |-> d, err |-> "Fault"]
    ELSE IF Matching(d, filter) = {} THEN [docs |-> d, err |-> "nil"]
    ELSE [docs |-> [d EXCEPT ![First(Matching(d, filter))] = doc], err |-> "nil"]

DeleteOne(d, filter, fault) ==
    IF fault THEN [docs |-> d, err |-> "Fault"]
    ELSE IF Matching(d, filter) = {} THEN [docs |-> d, err |-> "nil"]
    ELSE [docs |-> Remove(d, First(Matching(d, filter))), err |-> "nil"]

\* ------------------------------------------------- DatabaseCollection
\* Every handler is an operator from the stored documents and its arguments
\* to [docs, res, err, calls]: the documents afterwards, the returned
\* result, the returned error ("nil", one of the package's sentinels, or
\* "panic" when the handler does not return), and the store calls it made.
Outcome(d, res, err, calls) == [docs |-> d, res |-> res, err |-> err, calls |-> calls]

\* the filter of GetItem and ItemExists
LookupFilter(by, value) ==
    IF by \in {"_id", "id"} THEN Filter("_id", ObjectIDFromHex(value).id)
    ELSE Filter(by, value)

\* GetItem failing on a value that does not decode, before any store call
GetItemStrict(d, by, value, fault) ==
    IF by \in {"_id", "id"} /\ ObjectIDFromHex(value).err # "nil"
    THEN Outcome(d, <<>>, "ErrorGetFailed", <<>>)
    ELSE LET item == FindOne(d, LookupFilter(by, value), fault)
         IN IF item.err # "nil"
            THEN Outcome(d, <<>>, "ErrorGetFailed", <<Call("FindOne", item.err)>>)
            ELSE Outcome(d, item.res, "nil", <<Call("FindOne", item.err)>>)

GetItem(d, by, value, fault) ==
    LET item == FindOne(d, LookupFilter(by, value), fault)
    IN IF item.err # "nil"
       THEN Outcome(d, <<>>, "ErrorGetFailed", <<Call("FindOne", item.err)>>)
       ELSE Outcome(d, item.res, "nil", <<Call("FindOne", item.err)>>)

\* ItemExists returns a bool: res is <<TRUE>> or <<FALSE>>, err is always "nil"
ItemExists(d, by, value, fault) ==
    LET result == FindOne(d, LookupFilter(by, value), fault)
    IN Outcome(d, <<result.err = "nil">>, "nil", <<Call("FindOne", result.err)>>)

\* the checks without the one for a blank identifier
CheckRecordNoIdCheck(i) ==
    IF i.kind # "Ptr" THEN "ErrorValueNotPointer"
    ELSE IF i.elemKind # "Struct" THEN "ErrorValueNotStruct"
    ELSE IF i.idField # "ObjectID" THEN "panic"
    ELSE "nil"

\* the struct check placed before the pointer check
CheckRecordStructFirst(i) ==
    IF i.kind # "Struct" /\ i.elemKind # "Struct" THEN "ErrorValueNotStruct"
    ELSE IF i.kind # "Ptr" THEN "ErrorValueNotPointer"
    ELSE IF i.idField # "ObjectID" THEN "panic"
    ELSE IF i.ID = NilObjectID THEN "ErrorIdBlank"
    ELSE "nil"

\* The checks NewItem and UpdateItem both open with.  FieldByName("ID") of a
\* struct without that field is the zero Value, whose Interface() panics;
\* the type assertion panics when the field is not an ObjectID.
CheckRecord(i) ==
    IF i.kind # "Ptr" THEN "ErrorValueNotPointer"
    ELSE IF i.elemKind # "Struct" THEN "ErrorValueNotStruct"
    ELSE IF i.idField # "ObjectID" THEN "panic"
    ELSE IF i.ID = NilObjectID THEN "ErrorIdBlank"
    ELSE "nil"

\* the record handed in returned as the result, with no re-fetch
RefetchOwn(d, i, fault) == Outcome(d, <<Document(i.ID, i.data)>>, "nil", <<>>)

\* ObjectID.String() where Hex() was meant
RefetchByString(d, i, fault) == GetItem(d, "id", <<"O", "b", "j", "e", "c", "t", "I", "D", "(">> \o Hex(i.ID) \o <<")">>, fault)

\* the closing line of NewItem and UpdateItem: c.GetItem(ctx, "id", ID.Hex())
Refetch(d, i, fault) == GetItem(d, "id", Hex(i.ID), fault)

\* NewItem up to and including its InsertOne
NewItemWrite(d, i, fault) ==
    IF CheckRecord(i) # "nil" THEN Outcome(d, <<>>, CheckRecord(i), <<>>)
    ELSE LET ins == InsertOne(d, Document(i.ID, i.data), fault)
         IN IF ins.err # "nil"
            THEN Outcome(ins.docs, <<>>, "ErrorInsertFailed", <<Call("InsertOne", ins.err)>>)
            ELSE Outcome(ins.docs, <<>>, "nil", <<Call("InsertOne", ins.err)>>)

NewItem(d, i, faultWrite, faultFind) ==
    LET w == NewItemWrite(d, i, faultWrite)
    IN IF w.err # "nil" THEN w
       ELSE LET g == Refetch(w.docs, i, faultFind)
            IN Outcome(g.docs, g.res, g.err, w.calls \o g.calls)

\* the replace made with upsert: a record that matches nothing is inserted
UpdateItemWriteUpsert(d, i, fault) ==
    IF CheckRecord(i) # "nil" THEN Outcome(d, <<>>, CheckRecord(i), <<>>)
    ELSE LET rep == ReplaceOne(d, Filter("_id", i.ID), Document(i.ID, i.data), fault)
             ups == IF rep.err = "nil" /\ Matching(d, Filter("_id", i.ID)) = {} THEN Append(d, Document(i.ID, i.data)) ELSE rep.docs
         IN IF rep.err # "nil"
            THEN Outcome(rep.docs, <<>>, "ErrorUpdateFailed", <<Call("ReplaceOne", rep.err)>>)
            ELSE Outcome(ups, <<>>, "nil", <<Call("ReplaceOne", rep.err)>>)

\* UpdateItem up to and including its ReplaceOne
UpdateItemWrite(d, i, fault) ==
    IF CheckRecord(i) # "nil" THEN Outcome(d, <<>>, CheckRecord(i), <<>>)
    ELSE LET rep == ReplaceOne(d, Filter("_id", i.ID), Document(i.ID, i.data), fault)
         IN IF rep.err # "nil"
            THEN Outcome(rep.docs, <<>>, "ErrorUpdateFailed", <<Call("ReplaceOne", rep.err)>>)
            ELSE Outcome(rep.docs, <<>>, "nil", <<Call("ReplaceOne", rep.err)>>)

UpdateItem(d, i, faultWrite, faultFind) ==
    LET w == UpdateItemWrite(d, i, faultWrite)
    IN IF w.err # "nil" THEN w
       ELSE LET g == Refetch(w.docs, i, faultFind)
            IN Outcome(g.docs, g.res, g.err, w.calls \o g.calls)

\* the delete filter built on the key "id", which no document has
DeleteItemWrongKey(d, id, fault) ==
    LET del == DeleteOne(d, Filter("id", id), fault)
    IN IF del.err # "nil"
       THEN Outcome(del.docs, <<>>, "ErrorDeleteFailed", <<Call("DeleteOne", del.err)>>)
       ELSE Outcome(del.docs, <<>>, "nil", <<Call("DeleteOne", del.err)>>)

\* the store's own error handed back
DeleteItemRawError(d, id, fault) ==
    LET del == DeleteOne(d, Filter("_id", id), fault)
    IN Outcome(del.docs, <<>>, del.err, <<Call("DeleteOne", del.err)>>)

DeleteItem(d, id, fault) ==
    LET del == DeleteOne(d, Filter("_id", id), fault)
    IN IF del.err # "nil"
       THEN Outcome(del.docs, <<>>, "ErrorDeleteFailed", <<Call("DeleteOne", del.err)>>)
       ELSE Outcome(del.docs, <<>>, "nil", <<Call("DeleteOne", del.err)>>)

\* ------------------------------------------------------ DatabaseClient
Names == {"users", "orders"}

Handles == {"live", "mock"}

Collection(name, handle) == [name |-> name, collection |-> handle]

\* what ListCollectionNames can answer: the names of the database, each once
\* (the empty list when the listing fails)
Listings == {<<>>, <<"users">>, <<"orders">>, <<"users", "orders">>, <<"orders", "users">>}

\* the registry NewStorage leaves: one live Collection per listed name
NewStorage(collectionStrings) == [n \in 1..Len(collectionStrings) |-> Collection(collectionStrings[n], "live")]

AddCollections(registry, cols) == registry \o cols

\* GetCollection: the first Collection of that name, <<>> for nil
GetCollection(registry, collectionName) ==
    IF \E n \in 1..Len(registry) : registry[n].name = collectionName
    THEN <<registry[First({n \in 1..Len(registry) : registry[n].name = collectionName})]>>
    ELSE <<>>

\* --------------------------------------------------------------- state
NoArg == Arg("Invalid", "Invalid", "absent", NilObjectID, <<"a">>)

Ret(op, i, by, value, id, o) ==
    [op |-> op, i |-> i, by |-> by, value |-> value, id |-> id, res |-> o.res, err |-> o.err, calls |-> o.calls]

NoRet == Ret("none", NoArg, "id", <<>>, NilObjectID, Outcome(<<>>, <<>>, "nil", <<>>))

Procs == 1..NumProcs

NoJob == [op |-> "none", i |-> NoArg]

NoOut == [res |-> <<>>, err |-> "nil"]

NoneBetween == [kind |-> "none", doc |-> <<>>]

\* collections exist before the client binds them: the store may already
\* hold a document, the one with the nil identifier included
InitDocs == {<<>>} \cup {<<doc>> : doc \in {Document(NilObjectID, <<"a">>), Document(OID(1), <<"b">>)}}

\* the parts of the state, as each specification starts them
InitCrud(D) ==
    /\ docs \in D
    /\ prevDocs = docs
    /\ ret = NoRet
    /\ crashed = FALSE

InitClient(L) ==
    /\ \E names \in L : Collections = NewStorage(names)
    /\ got = [name |-> "users", col |-> <<>>]

InitConc ==
    /\ pc = [p \in Procs |-> "idle"]
    /\ job = [p \in Procs |-> NoJob]
    /\ own = [p \in Procs |-> <<>>]
    /\ between = [p \in Procs |-> NoneBetween]
    /\ out = [p \in Procs |-> NoOut]

Init == InitCrud(InitDocs) /\ InitClient({<<>>}) /\ InitConc

\* ------------------------------------------- one caller, whole handlers
Finish(op, i, by, value, id, o) ==
    /\ docs' = o.docs
    /\ prevDocs' = docs
    /\ ret' = Ret(op, i, by, value, id, o)
    /\ crashed' = (o.err = "panic")
    /\ UNCHANGED <<clientVars, concVars>>

CallNewItem ==
    /\ ~crashed
    /\ \E i \in Args, f \in Faults :
          Finish("NewItem", i, "id", <<>>, NilObjectID, NewItem(docs, i, f[1], f[2]))

CallUpdateItem ==
    /\ ~crashed
    /\ \E i \in Args, f \in Faults :
          Finish("UpdateItem", i, "id", <<>>, NilObjectID, UpdateItem(docs, i, f[1], f[2]))

CallGetItem ==
    /\ ~crashed
    /\ \E l \in Lookups, fault \in BOOLEAN :
          Finish("GetItem", NoArg, l[1], l[2], NilObjectID, GetItem(docs, l[1], l[2], fault))

CallItemExists ==
    /\ ~crashed
    /\ \E l \in Lookups, fault \in BOOLEAN :
          Finish("ItemExists", NoArg, l[1], l[2], NilObjectID, ItemExists(docs, l[1], l[2], fault))

CallDeleteItem ==
    /\ ~crashed
    /\ \E id \in Ids, fault \in BOOLEAN :
          Finish("DeleteItem", NoArg, "id", <<>>, id, DeleteItem(docs, id, fault))

Next ==
    \/ CallNewItem
    \/ CallUpdateItem
    \/ CallGetItem
    \/ CallItemExists
    \/ CallDeleteItem

Spec == Init /\ [][Next]_vars

\* ------------------------------------------------------- the registry
CallAddCollections ==
    /\ \E cols \in {<<Collection(n, h)>> : n \in Names, h \in Handles}
                   \cup {<<Collection(n, "mock"), Collection(m, "mock")>> : n \in Names, m \in Names} :
          /\ Len(Collections) + Len(cols) <= MaxRegistry
          /\ Collections' = AddCollections(Collections, cols)
    /\ UNCHANGED <<got, crudVars, concVars>>

CallGetCollection ==
    /\ \E collectionName \in Names \cup {"absent"} :
          got' = [name |-> collectionName, col |-> GetCollection(Collections, collectionName)]
    /\ UNCHANGED <<Collections, crudVars, concVars>>

NextClient ==
    \/ CallAddCollections
    \/ CallGetCollection

InitRegistry == InitCrud({<<>>}) /\ InitClient(Listings) /\ InitConc

SpecClient == InitRegistry /\ [][NextClient]_vars

\* ------------------------------------- several callers, one collection
\* Each store call is one step.  NewItem and UpdateItem take two steps, the
\* write (with the checks before it) and the re-fetch; DeleteItem has one
\* store call and is one step.  between[p] records the last change other
\* callers made to p's identifier after p's write, own[p] the document p's
\* write left in the store.  The store answers every call here:
\* the failures of these runs come from the interleaving alone.
\* the callers contend for one identifier; the nil one is there to be refused
ConcIds == {NilObjectID, OID(1)}

PayloadOf(p) == IF p % 2 = 1 THEN <<"a">> ELSE <<"b">>

\* the callers that wrote identifier id and have not re-fetched yet
Waiting(p, id) == {q \in Procs \ {p} : pc[q] = "refetch" /\ job[q].i.ID = id}

Noted(p, id, changed, kind, doc) ==
    [q \in Procs |-> IF changed /\ q \in Waiting(p, id) THEN [kind |-> kind, doc |-> doc] ELSE between[q]]

StartNewItem(p) ==
    /\ pc[p] = "idle"
    /\ \E id \in ConcIds :
          LET i == Arg("Ptr", "Struct", "ObjectID", id, PayloadOf(p))
              w == NewItemWrite(docs, i, FALSE)
          IN /\ docs' = w.docs
             /\ job' = [job EXCEPT ![p] = [op |-> "NewItem", i |-> i]]
             /\ pc' = [pc EXCEPT ![p] = IF w.err = "nil" THEN "refetch" ELSE "done"]
             /\ out' = [out EXCEPT ![p] = [res |-> w.res, err |-> w.err]]
             /\ own' = [own EXCEPT ![p] = IF w.err = "nil" THEN <<Document(i.ID, i.data)>> ELSE <<>>]
             /\ between' = [Noted(p, id, w.docs # docs, "written", <<Document(i.ID, i.data)>>) EXCEPT ![p] = NoneBetween]
    /\ UNCHANGED <<prevDocs, ret, crashed, clientVars>>

StartUpdateItem(p) ==
    /\ pc[p] = "idle"
    /\ \E id \in ConcIds :
          LET i == Arg("Ptr", "Struct", "ObjectID", id, PayloadOf(p))
              w == UpdateItemWrite(docs, i, FALSE)
              matched == w.err = "nil" /\ Matching(docs, Filter("_id", id)) # {}
          IN /\ docs' = w.docs
             /\ job' = [job EXCEPT ![p] = [op |-> "UpdateItem", i |-> i]]
             /\ pc' = [pc EXCEPT ![p] = IF w.err = "nil" THEN "refetch" ELSE "done"]
             /\ out' = [out EXCEPT ![p] = [res |-> w.res, err |-> w.err]]
             /\ own' = [own EXCEPT ![p] = IF matched THEN <<Document(i.ID, i.data)>> ELSE <<>>]
             /\ between' = [Noted(p, id, matched, "written", <<Document(i.ID, i.data)>>) EXCEPT ![p] = NoneBetween]
    /\ UNCHANGED <<prevDocs, ret, crashed, clientVars>>

StepRefetch(p) ==
    /\ pc[p] = "refetch"
    /\ LET g == Refetch(docs, job[p].i, FALSE)
       IN /\ out' = [out EXCEPT ![p] = [res |-> g.res, err |-> g.err]]
          /\ pc' = [pc EXCEPT ![p] = "done"]
    /\ UNCHANGED <<docs, job, own, between, prevDocs, ret, crashed, clientVars>>

StepDeleteItem(p) ==
    /\ pc[p] = "idle"
    /\ \E id \in ConcIds :
          LET o == DeleteItem(docs, id, FALSE)
          IN /\ docs' = o.docs
             /\ between' = Noted(p, id, o.docs # docs, "deleted", <<>>)
             /\ UNCHANGED <<job, pc, out, own>>
    /\ UNCHANGED <<prevDocs, ret, crashed, clientVars>>

\* the caller takes the result and is free to call again
Return(p) ==
    /\ pc[p] = "done"
    /\ pc' = [pc EXCEPT ![p] = "idle"]
    /\ job' = [job EXCEPT ![p] = NoJob]
    /\ out' = [out EXCEPT ![p] = NoOut]
    /\ own' = [own EXCEPT ![p] = <<>>]
    /\ between' = [between EXCEPT ![p] = NoneBetween]
    /\ UNCHANGED <<docs, prevDocs, ret, crashed, clientVars>>

NextConc ==
    \E p \in Procs :
       \/ StartNewItem(p)
       \/ StartUpdateItem(p)
       \/ StepRefetch(p)
       \/ StepDeleteItem(p)
       \/ Return(p)

SpecConc == Init /\ [][NextConc]_vars

\* --------------------------------------------------------------- claims
IsRecord(i) == i.kind = "Ptr" /\ i.elemKind = "Struct" /\ i.idField = "ObjectID"

Stored(d, id) == Matching(d, Filter("_id", id)) # {}

WriteOps == {"NewItem", "UpdateItem"}

NoStoreCall == ret.calls = <<>> /\ docs = prevDocs

\* C1: a record (pointer to struct) whose ID is the nil identifier makes
\* NewItem and UpdateItem return ErrorIdBlank, with no store call made and
\* the stored documents unchanged.
C1_NilIdRejected ==
    (ret.op \in WriteOps /\ IsRecord(ret.i) /\ ret.i.ID = NilObjectID)
        => (ret.err = "ErrorIdBlank" /\ NoStoreCall)

C1_Witness ==
    /\ ret.op = "UpdateItem" /\ IsRecord(ret.i) /\ ret.i.ID = NilObjectID
    /\ Stored(docs, NilObjectID)
    /\ ret.err = "ErrorIdBlank"

\* C2: NewItem and UpdateItem return ErrorValueNotPointer for every argument
\* that is not a pointer and ErrorValueNotStruct for every pointer to a
\* non-struct, whatever the ID looks like, and make no store call.
C2_KindChecksFirst ==
    ret.op \in WriteOps =>
        /\ ret.i.kind # "Ptr" => (ret.err = "ErrorValueNotPointer" /\ NoStoreCall)
        /\ (ret.i.kind = "Ptr" /\ ret.i.elemKind # "Struct") => (ret.err = "ErrorValueNotStruct" /\ NoStoreCall)

C2_Witness ==
    /\ ret.op = "NewItem" /\ ret.i.kind = "Ptr" /\ ret.i.elemKind # "Struct"
    /\ ret.i.ID = NilObjectID
    /\ ret.err = "ErrorValueNotStruct"

\* C3: right after a successful NewItem of a record whose identifier X was
\* not stored before, GetItem("id", hex(X)) (answered by the store) succeeds
\* with the inserted record, and NewItem returned that same document.
C3_RoundTrip ==
    (ret.op = "NewItem" /\ ret.err = "nil" /\ ~Stored(prevDocs, ret.i.ID))
        => /\ ret.res = <<Document(ret.i.ID, ret.i.data)>>
           /\ GetItem(docs, "id", Hex(ret.i.ID), FALSE).err = "nil"
           /\ GetItem(docs, "id", Hex(ret.i.ID), FALSE).res = ret.res

C3_Witness ==
    /\ ret.op = "NewItem" /\ ret.err = "nil" /\ ~Stored(prevDocs, ret.i.ID)
    /\ Len(prevDocs) >= 1
    /\ Len(docs) = Len(prevDocs) + 1

\* C4: ItemExists("id", hex(X)) (answered by the store) is true right after
\* a successful NewItem with identifier X, and false, answered or not, right
\* after a successful DeleteItem(X).
C4_ExistsAfterNewNotAfterDelete ==
    /\ (ret.op = "NewItem" /\ ret.err = "nil")
          => ItemExists(docs, "id", Hex(ret.i.ID), FALSE).res = <<TRUE>>
    /\ (ret.op = "DeleteItem" /\ ret.err = "nil")
          => \A fault \in BOOLEAN : ItemExists(docs, "id", Hex(ret.id), fault).res = <<FALSE>>

C4_Witness ==
    /\ ret.op = "DeleteItem" /\ ret.err = "nil"
    /\ Stored(prevDocs, ret.id)
    /\ ret.id # NilObjectID

NoMatchUpdate == ret.op = "UpdateItem" /\ CheckRecord(ret.i) = "nil" /\ ~Stored(prevDocs, ret.i.ID)

\* C5 as claimed: UpdateItem with a valid record whose identifier matches no
\* stored document completes without an error, when no store call faults.
C5_NoMatchNoError ==
    (NoMatchUpdate /\ \A n \in 1..Len(ret.calls) : ret.calls[n].err # "Fault")
        => ret.err = "nil"

\* C5 amended: for such an UpdateItem the replaceOne call reports no error for
\* the missing match and stores nothing, so ErrorUpdateFailed is returned
\* only when the replaceOne call itself fails; otherwise the re-fetch is made,
\* finds no document, and UpdateItem returns ErrorGetFailed with no result.
C5_NoMatchIsGetFailed ==
    NoMatchUpdate =>
        /\ docs = prevDocs
        /\ ret.res = <<>>
        /\ Len(ret.calls) >= 1 /\ ret.calls[1].call = "ReplaceOne"
        /\ ret.calls[1].err # "nil" => (ret.err = "ErrorUpdateFailed" /\ Len(ret.calls) = 1)
        /\ ret.calls[1].err = "nil" =>
              /\ ret.err = "ErrorGetFailed"
              /\ Len(ret.calls) = 2 /\ ret.calls[2].call = "FindOne"

C5_Witness ==
    /\ NoMatchUpdate
    /\ ret.err = "ErrorGetFailed"
    /\ ret.calls = <<Call("ReplaceOne", "nil"), Call("FindOne", "ErrNoDocuments")>>

\* C6: a pointer to a struct that has no field ID makes NewItem and
\* UpdateItem return ErrorIdBlank.
C6_AbsentIdIsBlank ==
    (ret.op \in WriteOps /\ ret.i.kind = "Ptr" /\ ret.i.elemKind = "Struct" /\ ret.i.idField = "absent")
        => ret.err = "ErrorIdBlank"

\* C7: for the keys "id" and "_id" and a value that is not 24 hex digits,
\* GetItem and ItemExists do exactly what the same lookup with the hex form
\* of the nil identifier does (same result, same error, same store call), and
\* the only error GetItem returns is ErrorGetFailed.
C7_MalformedIsNilLookup ==
    (ret.op \in {"GetItem", "ItemExists"} /\ ret.by \in IdKeys /\ ret.value \in Malformed)
        => LET fault == \E n \in 1..Len(ret.calls) : ret.calls[n].err = "Fault"
               asNil == IF ret.op = "GetItem" THEN GetItem(prevDocs, ret.by, Hex(NilObjectID), fault)
                        ELSE ItemExists(prevDocs, ret.by, Hex(NilObjectID), fault)
               found == IF ret.op = "GetItem" THEN ret.err = "nil" ELSE ret.res = <<TRUE>>
           IN /\ ret.calls = asNil.calls /\ ret.err = asNil.err /\ ret.res = asNil.res
              /\ ret.err \in {"nil", "ErrorGetFailed"}
              /\ ~fault => (found <=> Stored(prevDocs, NilObjectID))

C7_Witness ==
    /\ ret.op = "GetItem" /\ ret.by = "id" /\ ret.value \in Malformed
    /\ ret.err = "nil"
    /\ ret.res = <<Document(NilObjectID, <<"a">>)>>

SentinelOfOp(op) ==
    IF op = "NewItem" THEN "ErrorInsertFailed"
    ELSE IF op = "UpdateItem" THEN "ErrorUpdateFailed"
    ELSE IF op = "GetItem" THEN "ErrorGetFailed"
    ELSE "ErrorDeleteFailed"

SentinelOfCall(call) ==
    IF call = "InsertOne" THEN "ErrorInsertFailed"
    ELSE IF call = "ReplaceOne" THEN "ErrorUpdateFailed"
    ELSE IF call = "FindOne" THEN "ErrorGetFailed"
    ELSE "ErrorDeleteFailed"

ErrorOps == {"NewItem", "UpdateItem", "GetItem", "DeleteItem"}

SomeCallFailed == \E n \in 1..Len(ret.calls) : ret.calls[n].err # "nil"

\* C8 as claimed: whichever store call fails inside it, NewItem returns
\* ErrorInsertFailed, UpdateItem ErrorUpdateFailed, GetItem ErrorGetFailed
\* and DeleteItem ErrorDeleteFailed.
C8_SentinelPerOperation ==
    (ret.op \in ErrorOps /\ SomeCallFailed) => ret.err = SentinelOfOp(ret.op)

\* C8 amended: a failing store call ends the handler, which returns no result
\* and the sentinel of that call's kind, never the store's own error:
\* InsertOne ErrorInsertFailed, ReplaceOne ErrorUpdateFailed, DeleteOne
\* ErrorDeleteFailed, and FindOne ErrorGetFailed also when it is the re-fetch
\* of NewItem or UpdateItem; a handler whose store calls all succeed returns
\* no error.
C8_SentinelPerStoreCall ==
    (ret.op \in ErrorOps /\ ret.calls # <<>>) =>
        LET last == ret.calls[Len(ret.calls)]
        IN /\ \A n \in 1..(Len(ret.calls) - 1) : ret.calls[n].err = "nil"
           /\ last.err # "nil" => (ret.err = SentinelOfCall(last.call) /\ ret.res = <<>>)
           /\ last.err = "nil" => ret.err = "nil"

C8_Witness ==
    /\ ret.op = "NewItem"
    /\ ret.calls = <<Call("InsertOne", "nil"), Call("FindOne", "Fault")>>
    /\ ret.err = "ErrorGetFailed"

\* C9: the names of the Collections in the registry are pairwise distinct.
C9_NamesDistinct ==
    \A m \in 1..Len(Collections), n \in 1..Len(Collections) :
        m # n => Collections[m].name # Collections[n].name

Returned(p) == pc[p] = "done" /\ job[p].op \in WriteOps /\ own[p] # <<>>

\* C10 as claimed: whenever the write of NewItem or UpdateItem put the
\* caller's document in the store, the call returns that document without
\* error, whatever other callers do before the re-fetch.
C10_ReturnsOwnDocument ==
    \A p \in Procs : Returned(p) => (out[p].err = "nil" /\ out[p].res = own[p])

\* C10 amended: the call returns what its re-fetch finds under the identifier
\* at the time of the re-fetch: its own document, without error, when no
\* other caller changed that identifier in between; ErrorGetFailed and no
\* result when the last such change was a delete; the other caller's
\* document, without error, when the last such change was an insert or a
\* replace.
C10_ReturnsWhatRefetchFinds ==
    \A p \in Procs : Returned(p) =>
        /\ between[p].kind = "none" => (out[p].err = "nil" /\ out[p].res = own[p])
        /\ between[p].kind = "deleted" => (out[p].err = "ErrorGetFailed" /\ out[p].res = <<>>)
        /\ between[p].kind = "written" => (out[p].err = "nil" /\ out[p].res = between[p].doc)

C10_Witness ==
    \E p \in Procs :
        /\ Returned(p) /\ job[p].op = "NewItem"
        /\ between[p].kind = "written"
        /\ out[p].err = "nil" /\ out[p].res # own[p]

====
